---- MODULE Spec2Model ----
(***************************************************************************)
(* Model of the PDF/web RAG assistant: document acquisition                *)
(* (src/tools/web_crawler.py, src/tools/pdf_scraper.py), loading and       *)
(* chunking (src/utils.py), the Chroma index rebuild (src/vectorstore.py)  *)
(* and the Streamlit front end (streamlit_app.py).                         *)
(*                                                                         *)
(* Text is a sequence of words (a word is a string); a dict is a function  *)
(* from its keys; a directory is a set of files [name, data].              *)
(***************************************************************************)
EXTENDS Integers, Sequences, FiniteSets, TLC

VARIABLES
    key,        \* GROQ_API_KEY is set in the process environment
    dbDir,      \* the directory CHROMA_DB_PATH exists
    index,      \* the entries of the Chroma collection: [id, page_content, metadata]
    cache,      \* the st.cache_resource entry of load_rag_chain
    builds,     \* calls of build_rag_chain since the cache was last cleared
    messages,   \* st.session_state.messages of the session
    chatShown,  \* the last script run reached st.chat_input
    notice,     \* what load_rag_chain displayed in the last script run
    pc,         \* position of the session's script run
    ids,        \* create_vector_store: the ids returned by vectordb.get()
    chunks,     \* ingestion handler: the chunks handed to create_vector_store
    raw_web,    \* files of data/raw_web
    processed,  \* files of data/papers/processed
    papers,     \* files of data/papers
    fetched,    \* results of fetch_page_text in the current ingestion run
    extracted,  \* results of extract_pdf_sections in the current ingestion run
    deleteOk,   \* create_vector_store: vectordb.delete did not raise (or was not needed)
    dispatched, \* some query has been handed to the chain (qa_chain.invoke)
    qpc,        \* position of a concurrent session's script run
    qchain,     \* the chain the concurrent session got from load_rag_chain
    qseen,      \* what the concurrent session's query found in the collection
    everInserted, \* some run of create_vector_store has added entries
    arg,        \* a function called on its own: its argument
    ret         \* a function called on its own: what it returned

vars == <<key, dbDir, index, cache, builds, messages, chatShown, notice, pc,
          ids, chunks, raw_web, processed, papers, fetched, extracted, deleteOk,
          dispatched, qpc, qchain, qseen, everInserted, arg, ret>>

----------------------------------------------------------------------------
(* Bounds of the model *)

MaxEntries == 4     \* entries the collection may hold
MaxMsgs == 4        \* messages kept in the conversation
MaxWords == 3       \* words of a text handed to the splitter
MaxDocs == 2        \* records of a list handed to the chunker
MaxFiller == 2      \* lines of body text after the title of a PDF
MaxRetrieved == 2   \* documents a query retrieves

(* Program constants *)

CHUNK_SIZE == 512
CHUNK_OVERLAP == 50
ABSTRACT_WORDS == 150

----------------------------------------------------------------------------
(* Dicts *)

Has(d, k) == k \in DOMAIN d
Get(d, k, default) == IF k \in DOMAIN d THEN d[k] ELSE default
Without(d, ks) == [k \in DOMAIN d \ ks |-> d[k]]
Truthy(d, k) == k \in DOMAIN d /\ d[k] # <<>>

(* Directories *)

WriteFile(dir, name, data) == {f \in dir : f.name # name} \cup {[name |-> name, data |-> data]}

RECURSIVE WriteAll(_, _)
WriteAll(dir, writes) ==
    IF writes = <<>> THEN dir
    ELSE WriteAll(WriteFile(dir, Head(writes).name, Head(writes).data), Tail(writes))

RECURSIVE SetToSeq(_)
SetToSeq(S) == IF S = {} THEN <<>> ELSE LET x == CHOOSE y \in S : TRUE IN <<x>> \o SetToSeq(S \ {x})

RECURSIVE Flatten(_)
Flatten(ss) == IF ss = <<>> THEN <<>> ELSE Head(ss) \o Flatten(Tail(ss))

Min(a, b) == IF a < b THEN a ELSE b

----------------------------------------------------------------------------
(* src/tools/web_crawler.py *)

RAW_DATA_DIR == "data/raw_web"

\* urlparse(url).netloc
Netloc(url) == CASE url = "http://a.org/x" -> <<"a.org">>
                 [] url = "http://b.org/y" -> <<"b.org">>
                 [] OTHER -> <<>>

\* What the HTTP GET of line 29-30 and the parse of lines 33-51 can deliver:
\* a parsed page [title, paras, body] when the outcome is "ok".
PageRag   == [title |-> <<"RAG", "Intro">>,
              paras |-> <<"RAG", "combines", "retrieval", "with", "generation.">>,
              body  |-> <<"Menu", "RAG", "combines", "retrieval", "with", "generation.">>]
PageEmpty == [title |-> <<"Blank">>, paras |-> <<>>, body |-> <<>>]
PageLong  == [title |-> <<>>, paras |-> <<>>, body |-> <<"W300", "W300", "tail">>]

\* line 40
PageTitle(url, page) == IF page.title # <<>> THEN page.title ELSE Netloc(url)

\* lines 43-51
CleanedText(page) == IF page.paras # <<>> THEN page.paras ELSE page.body

\* line 61: title-derived prefix plus a prefix of hash(url)
WebDocId(title, url) == <<title, url>>

\* fetch_page_text with the raw markup written before the status is checked
fetch_page_text_early_write(url, resp) ==
    LET failure(text) == [rec |-> [url |-> url, title |-> <<"ERROR">>, text |-> text,
                                   source |-> "web_page"],
                          writes |-> <<>>]
        title == PageTitle(url, resp.page)
        metadata == [url |-> url, title |-> title, date_fetched |-> "now",
                     source |-> "web_page", text |-> CleanedText(resp.page)]
        doc_id == WebDocId(title, url)
        raw == [name |-> <<doc_id, "_raw.html">>, data |-> resp.page]
    IN IF resp.outcome = "ok"
       THEN [rec |-> metadata,
             writes |-> <<raw, [name |-> <<doc_id, "_processed.json">>, data |-> metadata]>>]
       ELSE IF resp.outcome = "request_error"
       THEN [failure(<<"Failed", "to", "fetch:">>) EXCEPT !.writes = <<raw>>]
       ELSE failure(<<"Unexpected", "error:">>)

\* fetch_page_text: the returned record and the files written, in order
fetch_page_text(url, resp) ==
    IF resp.outcome = "ok"
    THEN LET title == PageTitle(url, resp.page)
             metadata == [url |-> url, title |-> title, date_fetched |-> "now",
                          source |-> "web_page", text |-> CleanedText(resp.page)]
             doc_id == WebDocId(title, url)
         IN [rec |-> metadata,
             writes |-> << [name |-> <<doc_id, "_raw.html">>, data |-> resp.page],
                           [name |-> <<doc_id, "_processed.json">>, data |-> metadata] >>]
    ELSE IF resp.outcome = "request_error"
    THEN [rec |-> [url |-> url, title |-> <<"ERROR">>, text |-> <<"Failed", "to", "fetch:">>,
                   source |-> "web_page"],
          writes |-> <<>>]
    ELSE [rec |-> [url |-> url, title |-> <<"ERROR">>, text |-> <<"Unexpected", "error:">>,
                   source |-> "web_page"],
          writes |-> <<>>]

----------------------------------------------------------------------------
(* src/tools/pdf_scraper.py *)

PROCESSED_DATA_DIR == "data/papers/processed"

\* str.lower() on the words the model's PDFs use
Lower(w) == CASE w = "Abstract" -> "abstract"
              [] w = "Introduction" -> "introduction"
              [] w = "Conclusion" -> "conclusion"
              [] w = "Conclusions" -> "conclusions"
              [] w = "References" -> "references"
              [] w = "Methods" -> "methods"
              [] w = "A" -> "a"
              [] w = "Study" -> "study"
              [] OTHER -> w

NonAlpha == {"1", "2", "a."}
\* the word begins with at least four letters ([A-Z][a-z]+[A-Z][a-z]+ under re.I)
FourLetters(w) == w \notin NonAlpha /\ Len(w) >= 4

\* the words of a text with, for each, whether it begins a line
RECURSIVE LineTokens(_, _)
LineTokens(line, first) ==
    IF line = <<>> THEN <<>>
    ELSE <<[w |-> Lower(Head(line)), raw |-> Head(line), bol |-> first]>> \o LineTokens(Tail(line), FALSE)

RECURSIVE Tokens(_)
Tokens(lines) == IF lines = <<>> THEN <<>> ELSE LineTokens(Head(lines), TRUE) \o Tokens(Tail(lines))

\* regex.search: the leftmost position at or after `from` among the matches, or 0
FirstIdx(matches, from) ==
    LET S == {i \in matches : i >= from}
    IN IF S = {} THEN 0 ELSE CHOOSE i \in S : \A j \in S : i <= j

WordsOf(toks, lo, hi) == [i \in 1..(IF hi >= lo THEN hi - lo + 1 ELSE 0) |-> toks[lo + i - 1].w]

NextIs(toks, i, w) == i + 1 <= Len(toks) /\ toks[i + 1].w = w

\* ABSTRACT_REGEX, lines 12-15
AbstractMatch(toks) ==
    LET n == Len(toks)
        IsStart(i) == toks[i].w = "abstract"
        a == FirstIdx({i \in 1..n : IsStart(i)}, 1)
        IsEnd(i) == toks[i].bol /\ (FourLetters(toks[i].w)
                                    \/ (toks[i].w \in {"1", "i"} /\ NextIs(toks, i, "introduction")))
        t == IF a = 0 THEN 0 ELSE FirstIdx({i \in 1..n : IsEnd(i)}, a + 1)
    IN IF a = 0 \/ t = 0 THEN <<>> ELSE WordsOf(toks, a + 1, t - 1)

\* INTRO_REGEX, lines 17-20
IntroMatch(toks) ==
    LET n == Len(toks)
        IsStart(i) == toks[i].bol /\ (toks[i].w = "introduction"
                                      \/ (toks[i].w = "1" /\ NextIs(toks, i, "introduction")))
        s == FirstIdx({i \in 1..n : IsStart(i)}, 1)
        g == IF s = 0 THEN 0 ELSE IF toks[s].w = "1" THEN s + 2 ELSE s + 1
        IsEnd(i) == toks[i].bol /\ ((toks[i].w = "2" /\ i < n) \/ toks[i].w = "a.")
        t == IF s = 0 THEN 0 ELSE FirstIdx({i \in 1..n : IsEnd(i)}, g)
    IN IF s = 0 \/ t = 0 THEN <<>> ELSE WordsOf(toks, g, t - 1)

\* CONCLUSION_REGEX, lines 22-25: "^conclusion" matches first, so the "s" of a
\* "conclusions" heading is the first word of the group
ConclusionMatch(toks) ==
    LET n == Len(toks)
        IsStart(i) == toks[i].bol /\ toks[i].w \in {"conclusion", "conclusions"}
        s == FirstIdx({i \in 1..n : IsStart(i)}, 1)
        IsEnd(i) == toks[i].bol /\ toks[i].w \in {"acknowledgements", "references", "appendix"}
        t == IF s = 0 THEN 0 ELSE FirstIdx({i \in 1..n : IsEnd(i)}, s + 1)
    IN IF s = 0 \/ t = 0 THEN <<>>
       ELSE (IF toks[s].w = "conclusions" THEN <<"s">> ELSE <<>>) \o WordsOf(toks, s + 1, t - 1)

\* os.path.basename(path).replace(".pdf", "").replace(" ", "_").lower()
PdfDocId(name) == CASE name = "a.pdf" -> "a"
                    [] name = "A.pdf" -> "a"
                    [] name = "b.pdf" -> "b"
                    [] OTHER -> name

\* os.path.join(pdf_dir, pdf.name), streamlit_app.py line 115
PdfPath(name) == CASE name = "a.pdf" -> "data/papers/a.pdf"
                   [] name = "A.pdf" -> "data/papers/A.pdf"
                   [] name = "b.pdf" -> "data/papers/b.pdf"
                   [] OTHER -> "data/papers"

\* extract_pdf_sections with the metadata JSON written before the PDF is opened
extract_pdf_sections_early_dump(name, file) ==
    LET metadata == [path |-> PdfPath(name), title |-> <<name>>, abstract |-> <<>>,
                     introduction |-> <<>>, conclusion |-> <<>>, full_text |-> <<>>,
                     source |-> "pdf_paper"]
        dump == [name |-> <<PdfDocId(name), "_processed.json">>,
                 data |-> Without(metadata, {"full_text"})]
    IN [rec |-> [k \in DOMAIN metadata \cup {"error"} |->
                    IF k = "error" THEN "Error processing PDF" ELSE metadata[k]],
        writes |-> IF file.exists THEN <<dump>> ELSE <<>>]

\* extract_pdf_sections without the fallback of lines 78-79
extract_pdf_sections_no_fallback(name, file) ==
    LET path == PdfPath(name)
        metadata == [path |-> path, title |-> <<name>>, abstract |-> <<>>,
                     introduction |-> <<>>, conclusion |-> <<>>, full_text |-> <<>>,
                     source |-> "pdf_paper"]
        failed(msg) == [rec |-> [k \in DOMAIN metadata \cup {"error"} |->
                                    IF k = "error" THEN msg ELSE metadata[k]],
                        writes |-> <<>>]
    IN IF ~file.exists THEN failed("File not found.")
       ELSE IF file.parse # "ok" \/ file.pages = <<>> THEN failed("Error processing PDF")
       ELSE LET toks == Tokens(Flatten(file.pages))
                full == [metadata EXCEPT !.title = Head(file.pages[1]),
                                         !.abstract = AbstractMatch(toks),
                                         !.introduction = IntroMatch(toks),
                                         !.conclusion = ConclusionMatch(toks),
                                         !.full_text = [i \in 1..Len(toks) |-> toks[i].raw]]
            IN [rec |-> full,
                writes |-> << [name |-> <<PdfDocId(name), "_processed.json">>,
                               data |-> Without(full, {"full_text"})] >>]

\* extract_pdf_sections: the returned record and the files written.
\* file = [exists, parse, pages]; a page is its lines, a line its words.
extract_pdf_sections(name, file) ==
    LET path == PdfPath(name)
        metadata == [path |-> path, title |-> <<name>>, abstract |-> <<>>,
                     introduction |-> <<>>, conclusion |-> <<>>, full_text |-> <<>>,
                     source |-> "pdf_paper"]
        failed(msg) == [rec |-> [k \in DOMAIN metadata \cup {"error"} |->
                                    IF k = "error" THEN msg ELSE metadata[k]],
                        writes |-> <<>>]
    IN IF ~file.exists THEN failed("File not found.")
       ELSE IF file.parse # "ok" \/ file.pages = <<>> THEN failed("Error processing PDF")
       ELSE LET lines == Flatten(file.pages)
                toks == Tokens(lines)
                words == [i \in 1..Len(toks) |-> toks[i].raw]
                found == AbstractMatch(toks)
                abstract == IF found # <<>> THEN found
                            ELSE SubSeq(words, 1, Min(ABSTRACT_WORDS, Len(words)))
                full == [metadata EXCEPT !.title = Head(file.pages[1]),
                                         !.abstract = abstract,
                                         !.introduction = IntroMatch(toks),
                                         !.conclusion = ConclusionMatch(toks),
                                         !.full_text = words]
            IN [rec |-> full,
                writes |-> << [name |-> <<PdfDocId(name), "_processed.json">>,
                               data |-> Without(full, {"full_text"})] >>]


----------------------------------------------------------------------------
(* src/utils.py *)

\* len(word); "W300", "V300" and "W600" stand for words of 300, 300 and 600 characters
WLen(w) == CASE w = "W300" -> 300 [] w = "V300" -> 300 [] w = "W600" -> 600 [] OTHER -> Len(w)

\* load_processed_data: the records of the *_processed.json files of both
\* directories, data/raw_web first, that carry a non-empty text or full_text
IsProcessedJson(f) == f.name[2] = "_processed.json"
Loadable(f) == IsProcessedJson(f) /\ (Truthy(f.data, "text") \/ Truthy(f.data, "full_text"))
LoadDir(dir) == LET fs == SetToSeq({f \in dir : Loadable(f)})
                IN [i \in 1..Len(fs) |-> fs[i].data]
load_processed_data(web, pdf) == LoadDir(web) \o LoadDir(pdf)

\* RecursiveCharacterTextSplitter._merge_splits with separator "": the windows
\* <<lo, hi>> of consecutive splits that are joined into one chunk each.
\* lens[i] is the length of split i; the window being built is lo..(i-1).
RECURSIVE PopWindow(_, _, _, _, _, _)
PopWindow(lens, lo, i, total, size, overlap) ==
    IF lo < i /\ (total > overlap \/ (total + lens[i] > size /\ total > 0))
    THEN PopWindow(lens, lo + 1, i, total - lens[lo], size, overlap)
    ELSE <<lo, total>>

RECURSIVE MergeFrom(_, _, _, _, _, _, _)
MergeFrom(lens, i, lo, total, docs, size, overlap) ==
    IF i > Len(lens)
    THEN IF lo < i THEN Append(docs, <<lo, i - 1>>) ELSE docs
    ELSE IF total + lens[i] > size /\ lo < i
         THEN LET w == PopWindow(lens, lo, i, total, size, overlap)
              IN MergeFrom(lens, i + 1, w[1], w[2] + lens[i], Append(docs, <<lo, i - 1>>),
                           size, overlap)
         ELSE MergeFrom(lens, i + 1, lo, total + lens[i], docs, size, overlap)

merge_splits(lens, size, overlap) == MergeFrom(lens, 1, 1, 0, <<>>, size, overlap)

\* merge_splits on n splits of length 1 (a word split character by character):
\* each window holds size characters and starts size - overlap after the last
RECURSIVE UnitWindows(_, _, _, _)
UnitWindows(n, lo, size, overlap) ==
    IF lo + size - 1 >= n THEN << <<lo, n>> >>
    ELSE << <<lo, lo + size - 1>> >> \o UnitWindows(n, lo + size - overlap, size, overlap)

merge_chars(n, size, overlap) == IF n = 0 THEN <<>> ELSE UnitWindows(n, 1, size, overlap)

\* A chunk's page_content is a sequence of pieces [w, lo, hi]: characters
\* lo..hi of word w, pieces separated by one space.
WholeWord(w) == [w |-> w, lo |-> 1, hi |-> WLen(w)]

\* a separator list without "": a word too long for one chunk is kept whole
SplitLongWordWhole(w, lead) == << << WholeWord(w) >> >>

\* a word too long for one chunk, split character by character (separator "");
\* lead = 1 when the split carries the leading separator " "
SplitLongWord(w, lead) ==
    LET n == WLen(w) + lead
        wins == merge_chars(n, CHUNK_SIZE, CHUNK_OVERLAP)
        piece(win) == [w |-> w, lo |-> (IF win[1] - lead < 1 THEN 1 ELSE win[1] - lead),
                       hi |-> win[2] - lead]
    IN [k \in 1..Len(wins) |-> << piece(wins[k]) >>]

\* the chunks of a run of words (first..last) that are each shorter than CHUNK_SIZE
MergeWords(words, first, last) ==
    LET lens == [i \in 1..(last - first + 1) |->
                    WLen(words[first + i - 1]) + (IF first + i - 1 = 1 THEN 0 ELSE 1)]
        wins == merge_splits(lens, CHUNK_SIZE, CHUNK_OVERLAP)
    IN [k \in 1..Len(wins) |->
           [j \in 1..(wins[k][2] - wins[k][1] + 1) |->
               WholeWord(words[first + wins[k][1] + j - 2])]]

\* RecursiveCharacterTextSplitter._split_text on whitespace-normalised text:
\* split on " " (the separator stays at the head of each split), merge the
\* splits shorter than CHUNK_SIZE, split the others character by character
RECURSIVE SplitFrom(_, _, _)
SplitFrom(words, i, good) ==
    LET n == Len(words)
        flush == IF good < i THEN MergeWords(words, good, i - 1) ELSE <<>>
    IN IF i > n THEN flush
       ELSE IF WLen(words[i]) + (IF i = 1 THEN 0 ELSE 1) < CHUNK_SIZE
            THEN SplitFrom(words, i + 1, good)
            ELSE flush \o SplitLongWord(words[i], IF i = 1 THEN 0 ELSE 1)
                       \o SplitFrom(words, i + 1, i + 1)

split_text(words) ==
    IF Len(words) = 1
    THEN SplitLongWord(words[1], 0)
    ELSE SplitFrom(words, 1, 1)

\* line 82 keeping only the title and the location of the document
ChunkMetadataNoSource(doc) == [k \in DOMAIN doc \cap {"title", "url", "path"} |-> doc[k]]

\* line 82: the metadata every chunk of a document gets
ChunkMetadata(doc) == Without(doc, {"text", "full_text"})

\* split_text_into_chunks with line 77 reading 'text' before 'full_text'
RECURSIVE split_text_into_chunks_text_first(_)
split_text_into_chunks_text_first(documents) ==
    IF documents = <<>> THEN <<>>
    ELSE LET doc == Head(documents)
             content_text == IF Truthy(doc, "text") THEN doc["text"]
                             ELSE Get(doc, "full_text", <<>>)
             parts == split_text(content_text)
             doc_chunks == [k \in 1..Len(parts) |->
                               [page_content |-> parts[k], metadata |-> ChunkMetadata(doc)]]
         IN (IF content_text = <<>> THEN <<>> ELSE doc_chunks)
                \o split_text_into_chunks_text_first(Tail(documents))

\* split_text_into_chunks, lines 68-90
RECURSIVE split_text_into_chunks(_)
split_text_into_chunks(documents) ==
    IF documents = <<>> THEN <<>>
    ELSE LET doc == Head(documents)
             content_text == IF Truthy(doc, "full_text") THEN doc["full_text"]
                             ELSE Get(doc, "text", <<>>)
             metadata == ChunkMetadata(doc)
             parts == split_text(content_text)
             doc_chunks == [k \in 1..Len(parts) |->
                               [page_content |-> parts[k], metadata |-> metadata]]
         IN (IF content_text = <<>> THEN <<>> ELSE doc_chunks)
                \o split_text_into_chunks(Tail(documents))


----------------------------------------------------------------------------
(* src/vectorstore.py *)

\* ids of the entries of a collection
IdsOf(coll) == {e.id : e \in coll}

\* a delete that removes nothing
vectordb_delete_nothing(coll, del) == coll

\* vectordb.delete(ids=ids), line 32
vectordb_delete(coll, del) == {e \in coll : e.id \notin del}

\* the k-th id not yet in use (Chroma draws a fresh uuid per added document)
RECURSIVE FreshId(_, _, _)
FreshId(used, k, from) ==
    IF from \in used THEN FreshId(used, k, from + 1)
    ELSE IF k = 1 THEN from ELSE FreshId(used, k - 1, from + 1)

\* vectordb.add_documents(chunks), line 41
add_documents(coll, used, cs) ==
    coll \cup {[id |-> FreshId(used, k, 1), page_content |-> cs[k].page_content,
                metadata |-> cs[k].metadata] : k \in 1..Len(cs)}

----------------------------------------------------------------------------
(* streamlit_app.py *)

Empty == [kind |-> "empty"]
NoChain(why) == [kind |-> "none", notice |-> why]
Chain == [kind |-> "chain", notice |-> "ok"]
IsChain(v) == v.kind = "chain"

BuildOutcomes == {"ok", "raise"}

\* build_rag_chain (rag_pipeline.py): raises when the index directory is not
\* there, and may fail while loading the embeddings, the store or the LLM
build_rag_chain(dir, outcome) == IF ~dir THEN "raise" ELSE outcome

\* the body of load_rag_chain without the check of lines 37-42
load_rag_chain_body_no_dir_check(k, dir, outcome) ==
    IF ~k THEN [value |-> NoChain("no_key"), built |-> 0]
    ELSE [value |-> IF build_rag_chain(dir, outcome) = "ok" THEN Chain
                    ELSE NoChain("init_error"),
          built |-> 1]

\* the body of load_rag_chain without the check of lines 33-35
load_rag_chain_body_no_key_check(k, dir, outcome) ==
    IF ~dir THEN [value |-> NoChain("no_index"), built |-> 0]
    ELSE [value |-> IF build_rag_chain(dir, outcome) = "ok" THEN Chain
                    ELSE NoChain("init_error"),
          built |-> 1]

\* the body of load_rag_chain, lines 33-50: the value it returns, and whether
\* it called build_rag_chain
load_rag_chain_body(k, dir, outcome) ==
    IF ~k THEN [value |-> NoChain("no_key"), built |-> 0]
    ELSE IF ~dir THEN [value |-> NoChain("no_index"), built |-> 0]
    ELSE [value |-> IF build_rag_chain(dir, outcome) = "ok" THEN Chain
                    ELSE NoChain("init_error"),
          built |-> 1]

\* load_rag_chain without @st.cache_resource: the body runs on every call
load_rag_chain_uncached(c, k, dir, outcome) == load_rag_chain_body(k, dir, outcome)

\* load_rag_chain under @st.cache_resource (lines 27-28): the cached value is
\* returned when there is one, else the body runs and its value is cached
load_rag_chain(c, k, dir, outcome) ==
    IF c # Empty THEN [value |-> c, built |-> 0] ELSE load_rag_chain_body(k, dir, outcome)

\* lines 176-182: the (title, source, url_or_path) tuple of a retrieved document
SourceTuple(m) ==
    << Get(m, "title", <<"Untitled", "Document">>),
       Get(m, "source", "Unknown Source"),
       Get(m, "url", Get(m, "path", "N/A")) >>

\* the source list built from a list instead of a set
SourceLinesNoDedup(source_documents) ==
    [i \in 1..Len(source_documents) |-> SourceTuple(source_documents[i].metadata)]

\* lines 174-185: one line per element of the set unique_sources, in the
\* order the set is iterated
SourceLines(source_documents) ==
    SetToSeq({SourceTuple(source_documents[i].metadata) : i \in 1..Len(source_documents)})

\* rag_pipeline.py, run_rag_query, lines 86-92: the lines printed for a response
RagQuerySource(m) ==
    << Get(m, "title", <<"N/A">>), Get(m, "source", "N/A"), Get(m, "url", Get(m, "path", "N/A")) >>

run_rag_query_sources(source_documents) ==
    SetToSeq({RagQuerySource(source_documents[i].metadata) : i \in 1..Len(source_documents)})

\* the chat handler with no append in its except branch
ChatMessagesNoError(outcome) ==
    IF outcome = "ok"
    THEN << [role |-> "user", content |-> "question"],
            [role |-> "assistant", content |-> "answer"] >>
    ELSE << [role |-> "user", content |-> "question"] >>

\* the messages appended by the chat handler, lines 157-196
ChatMessages(outcome) ==
    << [role |-> "user", content |-> "question"],
       [role |-> "assistant", content |-> IF outcome = "ok" THEN "answer" ELSE "error"] >>

----------------------------------------------------------------------------
(* Inputs *)

URLS == {"http://a.org/x", "http://b.org/y"}
PdfNames == {"a.pdf"}

NoResponse == [outcome |-> "skip", page |-> PageEmpty]
Failed(kind) == [outcome |-> kind, page |-> PageEmpty]
Ok(page) == [outcome |-> "ok", page |-> page]

\* what a GET of each URL may deliver
Responses(u) ==
    IF u = "http://a.org/x"
    THEN {NoResponse, Failed("request_error"), Failed("unexpected"), Ok(PageRag), Ok(PageEmpty)}
    ELSE {NoResponse, Failed("request_error"), Ok(PageLong)}

PaperA == << << <<"A", "Study">>, <<"Abstract">>, <<"we", "do">>, <<"things">>,
                <<"1", "Introduction">>, <<"intro", "text">>, <<"2", "Methods">>, <<"m">>,
                <<"Conclusions">>, <<"done">>, <<"References">>, <<"r">> >> >>

PdfCorrupt  == [exists |-> TRUE, parse |-> "corrupt", pages |-> <<>>]
PdfNoPages  == [exists |-> TRUE, parse |-> "ok", pages |-> <<>>]
PdfScanned  == [exists |-> TRUE, parse |-> "ok", pages |-> << << <<>> >> >>]
PdfPaper    == [exists |-> TRUE, parse |-> "ok", pages |-> PaperA]
PdfMissing  == [exists |-> FALSE, parse |-> "none", pages |-> <<>>]
Uploads == {PdfCorrupt, PdfNoPages, PdfScanned, PdfPaper}

\* the forms the batch specification submits, and the few the whole-application
\* specification submits
BatchUploads == [PdfNames -> Uploads \cup {PdfMissing}]
BatchResponses == {r \in [URLS -> UNION {Responses(u) : u \in URLS}] :
                      \A u \in URLS : r[u] \in Responses(u)}
FewUploads == [PdfNames -> {PdfPaper, PdfMissing}]
FewResponses == {r \in BatchResponses :
                    /\ r["http://a.org/x"] \in {NoResponse, Failed("request_error"), Ok(PageRag)}
                    /\ r["http://b.org/y"] = NoResponse}

\* the file at a path of data/papers
FileAt(dir, name) == IF \E f \in dir : f.name = name
                     THEN (CHOOSE f \in dir : f.name = name).data
                     ELSE PdfMissing

\* lines 113-118: each uploaded PDF is written to data/papers and extracted
RECURSIVE AcquirePdfs(_, _, _)
AcquirePdfs(names, up, acc) ==
    IF names = <<>> THEN acc
    ELSE LET n == Head(names)
             r == extract_pdf_sections(n, up[n])
         IN AcquirePdfs(Tail(names), up,
                [papers |-> WriteFile(acc.papers, n, up[n]),
                 processed |-> WriteAll(acc.processed, r.writes),
                 results |-> acc.results \cup {[name |-> n, file |-> up[n], rec |-> r.rec,
                                                writes |-> r.writes]}])

\* lines 120-123: each URL is fetched
RECURSIVE AcquireUrls(_, _, _)
AcquireUrls(urls, resp, acc) ==
    IF urls = <<>> THEN acc
    ELSE LET u == Head(urls)
             r == fetch_page_text(u, resp[u])
         IN AcquireUrls(Tail(urls), resp,
                [raw_web |-> WriteAll(acc.raw_web, r.writes),
                 results |-> acc.results \cup {[url |-> u, outcome |-> resp[u].outcome,
                                                rec |-> r.rec, writes |-> r.writes]}])

----------------------------------------------------------------------------
(* The state machine *)

NotSeen == [at |-> "none", count |-> 0, deleted |-> TRUE]

\* no function has been called on its own
NoCall == [fn |-> "none"]

\* the application before its first script run, but for the credential
Fresh ==
    /\ dbDir = FALSE
    /\ index = {}
    /\ cache = Empty
    /\ builds = 0
    /\ messages = <<>>
    /\ chatShown = FALSE
    /\ notice = "none"
    /\ pc = "idle"
    /\ ids = {}
    /\ chunks = <<>>
    /\ raw_web = {}
    /\ processed = {}
    /\ papers = {}
    /\ fetched = {}
    /\ extracted = {}
    /\ deleteOk = TRUE
    /\ dispatched = FALSE
    /\ qpc = "idle"
    /\ qchain = Empty
    /\ qseen = NotSeen
    /\ everInserted = FALSE

Init ==
    /\ key \in BOOLEAN
    /\ Fresh
    /\ arg = NoCall
    /\ ret = NoCall

calls == <<arg, ret>>
files == <<raw_web, processed, papers>>
results == <<fetched, extracted>>
session == <<messages, chatShown, notice>>
other == <<qpc, qchain, qseen>>

\* A script run with no widget triggered (first page load, or the run that
\* st.rerun() starts): line 58, then the layout down to st.chat_input.
PageRun ==
    /\ pc \in {"idle", "rerun"}
    /\ \E outcome \in BuildOutcomes :
          LET run == load_rag_chain(cache, key, dbDir, outcome)
              qa == run.value
          IN /\ cache' = qa
             /\ builds' = builds + run.built
             /\ notice' = qa.notice
             /\ chatShown' = IsChain(qa)
    /\ pc' = "idle"
    /\ UNCHANGED <<key, dbDir, index, messages, dispatched, ids, chunks, deleteOk, everInserted>>
    /\ UNCHANGED <<files, results, other>>
    /\ UNCHANGED calls

\* "Clear Cache & Re-Initialize", lines 75-77 (after line 58 of the same run)
ClearCache ==
    /\ pc = "idle"
    /\ cache' = Empty
    /\ builds' = 0
    /\ pc' = "rerun"
    /\ UNCHANGED <<key, dbDir, index, dispatched, ids, chunks, deleteOk, everInserted>>
    /\ UNCHANGED <<files, results, session, other>>
    /\ UNCHANGED calls

\* A question typed into st.chat_input: line 58, the guard of lines 141-143,
\* then the handler of lines 155-196.
Chat ==
    /\ pc = "idle"
    /\ chatShown
    /\ Len(messages) + 2 <= MaxMsgs
    /\ \E outcome \in BuildOutcomes, answer \in {"ok", "raise"} :
          LET run == load_rag_chain(cache, key, dbDir, outcome)
              qa == run.value
          IN /\ cache' = qa
             /\ builds' = builds + run.built
             /\ notice' = qa.notice
             /\ chatShown' = IsChain(qa)
             /\ messages' = IF IsChain(qa) THEN messages \o ChatMessages(answer) ELSE messages
             /\ dispatched' = (dispatched \/ IsChain(qa))
    /\ UNCHANGED <<key, dbDir, index, pc, ids, chunks, deleteOk, everInserted>>
    /\ UNCHANGED <<files, results, other>>
    /\ UNCHANGED calls

\* the ingestion handler without the st.cache_resource.clear() of line 94
IngestWithNoClear(up, resp) ==
    /\ pc = "idle"
    /\ LET pdfs == AcquirePdfs(SetToSeq({n \in PdfNames : up[n].exists}), up,
                               [papers |-> {}, processed |-> processed, results |-> {}])
           webs == AcquireUrls(SetToSeq({u \in URLS : resp[u].outcome # "skip"}), resp,
                               [raw_web |-> {}, results |-> {}])
           docs == load_processed_data(webs.raw_web, pdfs.processed)
       IN /\ papers' = pdfs.papers
          /\ processed' = pdfs.processed
          /\ raw_web' = webs.raw_web
          /\ extracted' = pdfs.results
          /\ fetched' = webs.results
          /\ chunks' = split_text_into_chunks(docs)
    /\ UNCHANGED <<cache, builds>>
    /\ qseen' = NotSeen
    /\ pc' = "cvs_open"
    /\ UNCHANGED <<key, dbDir, index, ids, deleteOk, dispatched, qpc, qchain, everInserted>>
    /\ UNCHANGED session
    /\ UNCHANGED calls

\* "Ingest Data" with the uploads up and the responses resp of the URLs:
\* line 58, then lines 91-128: the cache is cleared, both data directories are
\* emptied, every upload and URL is acquired, and the persisted records are
\* loaded and chunked.
IngestWith(up, resp) ==
    /\ pc = "idle"
    /\ LET pdfs == AcquirePdfs(SetToSeq({n \in PdfNames : up[n].exists}), up,
                               [papers |-> {}, processed |-> processed, results |-> {}])
           webs == AcquireUrls(SetToSeq({u \in URLS : resp[u].outcome # "skip"}), resp,
                               [raw_web |-> {}, results |-> {}])
           docs == load_processed_data(webs.raw_web, pdfs.processed)
       IN /\ papers' = pdfs.papers
          /\ processed' = pdfs.processed
          /\ raw_web' = webs.raw_web
          /\ extracted' = pdfs.results
          /\ fetched' = webs.results
          /\ chunks' = split_text_into_chunks(docs)
    /\ cache' = Empty
    /\ builds' = 0
    /\ qseen' = NotSeen
    /\ pc' = "cvs_open"
    /\ UNCHANGED <<key, dbDir, index, ids, deleteOk, dispatched, qpc, qchain, everInserted>>
    /\ UNCHANGED session
    /\ UNCHANGED calls

IngestStart == \E up \in FewUploads, resp \in FewResponses : IngestWith(up, resp)

IngestBatch == \E up \in BatchUploads, resp \in BatchResponses : IngestWith(up, resp)

\* create_vector_store, lines 21-29: the collection is opened (which creates
\* the directory) and its ids are read. The values the acquirers returned
\* (lines 118 and 123) were dropped by the handler.
CvsOpen ==
    /\ pc = "cvs_open"
    /\ dbDir' = TRUE
    /\ ids' = IdsOf(index)
    /\ fetched' = {}
    /\ extracted' = {}
    /\ pc' = "cvs_delete"
    /\ UNCHANGED <<key, index, cache, builds, chunks, deleteOk, dispatched, everInserted>>
    /\ UNCHANGED <<files, session, other>>
    /\ UNCHANGED calls

\* create_vector_store, lines 31-38: the old entries are deleted; an error
\* while deleting is printed and the function goes on
CvsDelete ==
    /\ pc = "cvs_delete"
    /\ \/ /\ index' = vectordb_delete(index, ids)
          /\ deleteOk' = TRUE
       \/ /\ ids # {}
          /\ Cardinality(index) + Len(chunks) <= MaxEntries
          /\ index' = index
          /\ deleteOk' = FALSE
    /\ pc' = "cvs_add"
    /\ UNCHANGED <<key, dbDir, cache, builds, ids, chunks, dispatched, everInserted>>
    /\ UNCHANGED <<files, results, session, other>>
    /\ UNCHANGED calls

\* create_vector_store, lines 40-45: the chunks are added and the function
\* returns; adding an empty list either does nothing or raises, and then the
\* script run ends with the error on the page
CvsAdd ==
    /\ pc = "cvs_add"
    /\ \/ /\ index' = add_documents(index, IdsOf(index), chunks)
          /\ everInserted' = (everInserted \/ chunks # <<>>)
          /\ pc' = "cvs_done"
          /\ UNCHANGED <<ids, chunks, deleteOk, session>>
       \/ /\ chunks = <<>>
          /\ index' = index
          /\ UNCHANGED everInserted
          /\ pc' = "idle"
          /\ chatShown' = FALSE
          /\ ids' = {} /\ chunks' = <<>> /\ deleteOk' = TRUE
          /\ UNCHANGED <<messages, notice>>
    /\ UNCHANGED <<key, dbDir, cache, builds, dispatched>>
    /\ UNCHANGED <<files, results, other>>
    /\ UNCHANGED calls

\* lines 131-132: success is reported and the script is rerun
IngestDone ==
    /\ pc = "cvs_done"
    /\ pc' = "rerun"
    /\ ids' = {} /\ chunks' = <<>> /\ deleteOk' = TRUE
    /\ UNCHANGED <<key, dbDir, index, cache, builds, dispatched, everInserted>>
    /\ UNCHANGED <<files, results, session, other>>
    /\ UNCHANGED calls

\* extract_pdf_sections called on a path of data/papers (pdf_scraper.py's
\* own entry point, or any caller): the file may not be there
ExtractCall ==
    /\ pc = "idle"
    /\ \E n \in PdfNames :
          LET file == FileAt(papers, n)
              r == extract_pdf_sections(n, file)
          IN /\ processed' = WriteAll(processed, r.writes)
             /\ extracted' = {[name |-> n, file |-> file, rec |-> r.rec, writes |-> r.writes]}
    /\ UNCHANGED <<key, dbDir, index, cache, builds, pc, dispatched, everInserted>>
    /\ UNCHANGED <<raw_web, papers, ids, chunks, fetched, deleteOk>>
    /\ UNCHANGED <<session, other>>
    /\ UNCHANGED calls

\* view_db.py: the collection is opened (which creates the directory) and read
ViewDb ==
    /\ ~dbDir
    /\ dbDir' = TRUE
    /\ UNCHANGED <<key, index, cache, builds, pc, dispatched, ids, chunks, deleteOk, everInserted>>
    /\ UNCHANGED <<files, results, session, other>>
    /\ UNCHANGED calls

\* the credential is added to the environment file: load_dotenv (line 22)
\* picks it up on the next run
SetCredential ==
    /\ ~key
    /\ key' = TRUE
    /\ UNCHANGED <<dbDir, index, cache, builds, pc, dispatched, ids, chunks, deleteOk, everInserted>>
    /\ UNCHANGED <<files, results, session, other>>
    /\ UNCHANGED calls

\* the process is restarted: the resource cache and the sessions are lost,
\* the environment is read again; the index and the data files are durable
Restart ==
    /\ pc \in {"idle", "rerun"}
    /\ key' \in BOOLEAN
    /\ cache' = Empty
    /\ builds' = 0
    /\ messages' = <<>>
    /\ chatShown' = FALSE
    /\ notice' = "none"
    /\ pc' = "idle"
    /\ qpc' = "idle"
    /\ qchain' = Empty
    /\ qseen' = NotSeen
    /\ UNCHANGED <<dbDir, index, dispatched, ids, chunks, deleteOk, everInserted>>
    /\ UNCHANGED <<files, results>>
    /\ UNCHANGED calls

\* A second browser session of the same process submits a question: its
\* script run calls load_rag_chain (line 58) on the shared cache ...
QLoad ==
    /\ qpc = "idle"
    /\ \E outcome \in BuildOutcomes :
          LET run == load_rag_chain(cache, key, dbDir, outcome)
              qa == run.value
          IN /\ cache' = qa
             /\ builds' = builds + run.built
             /\ qchain' = qa
    /\ qpc' = "loaded"
    /\ UNCHANGED <<key, dbDir, index, pc, dispatched, qseen, ids, chunks, deleteOk, everInserted>>
    /\ UNCHANGED <<files, results, session>>
    /\ UNCHANGED calls

\* ... and, if it got a chain, invokes it (line 168): the retriever reads the
\* collection as it is at that moment
QQuery ==
    /\ qpc = "loaded"
    /\ IF IsChain(qchain)
       THEN /\ qseen' = [at |-> pc, count |-> Cardinality(index), deleted |-> deleteOk]
            /\ dispatched' = TRUE
       ELSE UNCHANGED <<qseen, dispatched>>
    /\ qpc' = "idle"
    /\ qchain' = Empty
    /\ UNCHANGED <<key, dbDir, index, cache, builds, pc, ids, chunks, deleteOk, everInserted>>
    /\ UNCHANGED <<files, results, session>>
    /\ UNCHANGED calls

\* The whole application, with the few forms
Next ==
    \/ PageRun
    \/ ClearCache
    \/ Chat
    \/ IngestStart
    \/ CvsOpen
    \/ CvsDelete
    \/ CvsAdd
    \/ IngestDone
    \/ ViewDb
    \/ SetCredential
    \/ Restart
    \/ QLoad
    \/ QQuery

Spec == Init /\ [][Next]_vars

\* The ingestion pipeline alone, with every form
NextBatch ==
    \/ IngestBatch
    \/ CvsOpen
    \/ CvsDelete
    \/ CvsAdd
    \/ IngestDone
    \/ PageRun
    \/ ExtractCall

SpecBatch == Init /\ [][NextBatch]_vars

\* One session of one process, nothing else touching the index
NextSerial ==
    \/ PageRun
    \/ ClearCache
    \/ Chat
    \/ IngestStart
    \/ CvsOpen
    \/ CvsDelete
    \/ CvsAdd
    \/ IngestDone
    \/ SetCredential
    \/ Restart

SpecSerial == Init /\ [][NextSerial]_vars

----------------------------------------------------------------------------
(* Functions called on their own *)

app == <<key, dbDir, index, cache, builds, messages, chatShown, notice, pc,
         ids, chunks, raw_web, processed, papers, fetched, extracted, deleteOk,
         dispatched, qpc, qchain, qseen, everInserted>>

\* the sequences of at most n elements of S
SeqsUpTo(S, n) == UNION {[1..k -> S] : k \in 0..n}

\* texts after whitespace normalisation: words, no word twice
Words == {"W300", "V300", "W600", "tail", "end"}
Texts == {t \in SeqsUpTo(Words, MaxWords) : \A i, j \in 1..Len(t) : t[i] = t[j] => i = j}

\* the records load_processed_data can hand to the chunker
WebRecord(title, t) == [url |-> "http://a.org/x", title |-> <<title>>, date_fetched |-> "now",
                        source |-> "web_page", text |-> t]
PdfRecord(title, t) == [path |-> "data/papers/a.pdf", title |-> <<title>>, abstract |-> <<"a">>,
                        introduction |-> <<>>, conclusion |-> <<>>, source |-> "pdf_paper",
                        full_text |-> t]
BothRecord(title, t, u) == [k \in DOMAIN PdfRecord(title, t) \cup {"text"} |->
                               IF k = "text" THEN u ELSE PdfRecord(title, t)[k]]
BareRecord(title) == [title |-> <<title>>, source |-> "web_page", url |-> "http://b.org/y"]

SomeRecords ==
    { WebRecord("w", <<"W600">>),
      PdfRecord("p", <<"W300", "tail", "V300">>),
      BothRecord("b", <<"W300", "V300", "tail">>, <<"end">>),
      BothRecord("e", <<>>, <<"tail", "W600">>),
      WebRecord("n", <<>>),
      BareRecord("x") }

ChunkerInputs == {<<WebRecord("w", t)>> : t \in Texts} \cup SeqsUpTo(SomeRecords, MaxDocs)

InitChunker ==
    /\ key = FALSE
    /\ Fresh
    /\ arg \in {[fn |-> "split_text_into_chunks", documents |-> d] : d \in ChunkerInputs}
    /\ ret = NoCall

\* utils.py's own entry point (lines 94-140), or any caller
CallChunker ==
    /\ arg.fn = "split_text_into_chunks"
    /\ ret = NoCall
    /\ ret' = [fn |-> "split_text_into_chunks", value |-> split_text_into_chunks(arg.documents)]
    /\ UNCHANGED <<app, arg>>

SpecChunker == InitChunker /\ [][CallChunker]_vars

\* PDFs put together from a title line, body text and section headings, any
\* of them left out; a page of a scanned document has one line without words
Blank == << <<>> >>
LongBody == 54      \* lines of three words: more than ABSTRACT_WORDS words
AbstractParts == {<<>>, << <<"Abstract">>, <<"we", "do">>, <<"things">> >>}
IntroParts == {<<>>, << <<"1", "Introduction">>, <<"intro", "text">> >>,
               << <<"Introduction">>, <<"intro", "text">> >>}
MethodParts == {<<>>, << <<"2", "Methods">>, <<"m">> >>}
ConclusionParts == {<<>>, << <<"Conclusion">>, <<"done">> >>, << <<"Conclusions">>, <<"done">> >>}
ReferenceParts == {<<>>, << <<"References">>, <<"r">> >>}
Filler(n) == [i \in 1..n |-> <<"so", "it", "is">>]

PdfPages ==
    {<< << <<"A", "Study">> >> \o Filler(n) \o a \o i \o m \o c \o r >> :
        n \in 0..MaxFiller, a \in AbstractParts, i \in IntroParts,
        m \in MethodParts, c \in ConclusionParts, r \in ReferenceParts}
    \cup {<<Blank, << <<"A", "Study">> >> \o Filler(n) \o c \o r>> :
              n \in 0..MaxFiller, c \in ConclusionParts, r \in ReferenceParts}
    \cup {<<Blank>>, <<Blank, Blank>>, << << <<"A", "Study">> >> \o Filler(LongBody) >>}

PdfFiles == {[exists |-> TRUE, parse |-> "ok", pages |-> p] : p \in PdfPages}
            \cup {PdfCorrupt, PdfNoPages, PdfMissing}

InitPdf ==
    /\ key = FALSE
    /\ Fresh
    /\ arg \in {[fn |-> "extract_pdf_sections", name |-> "a.pdf", file |-> f] : f \in PdfFiles}
    /\ ret = NoCall

\* pdf_scraper.py's own entry point (lines 99-130), or any caller
CallExtract ==
    /\ arg.fn = "extract_pdf_sections"
    /\ ret = NoCall
    /\ LET r == extract_pdf_sections(arg.name, arg.file)
       IN ret' = [fn |-> "extract_pdf_sections", rec |-> r.rec, writes |-> r.writes]
    /\ UNCHANGED <<app, arg>>

SpecPdf == InitPdf /\ [][CallExtract]_vars

\* metadata a retrieved document may carry: each of the four fields or not
Optional(k, vs) == {<<>>} \cup {<<<<k, v>>>> : v \in vs}
Fields(pairs) == {pairs[i][1] : i \in 1..Len(pairs)}
ValueOf(pairs, k) == pairs[CHOOSE i \in 1..Len(pairs) : pairs[i][1] = k][2]
RetrievedMetadata ==
    {[k \in Fields(t \o s \o u \o q) |-> ValueOf(t \o s \o u \o q, k)] :
        t \in Optional("title", {<<"T">>, <<"U">>}),
        s \in Optional("source", {"web_page", "pdf_paper"}),
        u \in Optional("url", {"http://a.org/x"}),
        q \in Optional("path", {"data/papers/a.pdf"})}
Retrieved == SeqsUpTo({[metadata |-> m] : m \in RetrievedMetadata}, MaxRetrieved)

InitSources ==
    /\ key = FALSE
    /\ Fresh
    /\ arg \in {[fn |-> f, source_documents |-> d] : f \in {"chat", "run_rag_query"}, d \in Retrieved}
    /\ ret = NoCall

\* streamlit_app.py lines 171-185 on the documents of a response
ShowSources ==
    /\ arg.fn = "chat"
    /\ ret = NoCall
    /\ ret' = [fn |-> "chat", lines |-> SourceLines(arg.source_documents)]
    /\ UNCHANGED <<app, arg>>

\* rag_pipeline.py lines 86-92 on the documents of a response
PrintSources ==
    /\ arg.fn = "run_rag_query"
    /\ ret = NoCall
    /\ ret' = [fn |-> "run_rag_query", lines |-> run_rag_query_sources(arg.source_documents)]
    /\ UNCHANGED <<app, arg>>

NextSources == ShowSources \/ PrintSources

SpecSources == InitSources /\ [][NextSources]_vars

----------------------------------------------------------------------------
(* Claims *)

Rebuilding == pc \in {"cvs_open", "cvs_delete", "cvs_add", "cvs_done"}

\* the entries of the collection are, one for one, the chunks of the call
HoldsExactly(coll, cs) ==
    /\ Cardinality(coll) = Len(cs)
    /\ \A k \in 1..Len(cs) :
          Cardinality({e \in coll : e.page_content = cs[k].page_content
                                    /\ e.metadata = cs[k].metadata})
            = Cardinality({j \in 1..Len(cs) : cs[j] = cs[k]})

\* C1: when create_vector_store returns, the collection holds exactly the
\* chunks supplied to that call: every older entry is gone, so a second run
\* over the same documents leaves as many entries as the first.
C1_RebuildExact == pc = "cvs_done" => HoldsExactly(index, chunks)

\* C2 as claimed: as long as no ingestion run has inserted entries, no chain
\* is built, the chat input is not reached and no query is dispatched.
C2_NoQueryBeforeInsert ==
    ~everInserted => (~dispatched /\ ~chatShown /\ ~IsChain(cache) /\ ~IsChain(qchain))

\* C2 amended: as long as the index directory does not exist, no chain is
\* built, build_rag_chain is not called, the chat input is not reached, no
\* query is dispatched, and what load_rag_chain cached is "no chain", reported
\* as index-not-found (or as a missing credential).
C2_NoQueryWithoutIndexDir ==
    ~dbDir => /\ ~dispatched /\ ~chatShown /\ ~IsChain(cache) /\ ~IsChain(qchain)
              /\ builds = 0
              /\ cache # Empty => cache \in {NoChain("no_index"), NoChain("no_key")}
              /\ notice \in {"none", "no_index", "no_key"}

C2_Witness == ~dbDir /\ key /\ cache = NoChain("no_index") /\ notice = "no_index" /\ pc = "idle"

\* C3: while GROQ_API_KEY is absent, load_rag_chain reports the missing
\* credential and returns no chain, build_rag_chain is not called and the chat
\* input is not reached, whether or not the index exists.
C3_NoChainWithoutCredential ==
    ~key => /\ ~IsChain(cache) /\ ~IsChain(qchain) /\ ~chatShown
            /\ builds = 0
            /\ cache # Empty => cache = NoChain("no_key")
            /\ notice \in {"none", "no_key"}

C3_Witness == ~key /\ dbDir /\ index # {} /\ cache = NoChain("no_key") /\ notice = "no_key"

\* C4: nothing keeps a query away from the collection while it is rebuilt, and
\* a query dispatched between the delete-all step and the insert step finds
\* zero entries.
C4_QuerySeesWipedIndex ==
    /\ (qseen.at = "cvs_add" /\ qseen.deleted) => qseen.count = 0
    /\ (Rebuilding /\ qpc = "loaded") => ENABLED QQuery

C4_Witness ==
    /\ pc = "cvs_add" /\ ids # {} /\ chunks # <<>>
    /\ qseen.at = "cvs_add" /\ qseen.count = 0

\* C5: fetch_page_text returns an error-tagged record and writes no file when
\* the fetch fails, and writes exactly two files (the raw markup and the
\* processed record) when it succeeds; data/raw_web holds nothing else.
ErrorTagged(f) ==
    /\ DOMAIN f.rec = {"url", "title", "text", "source"}
    /\ f.rec["title"] = <<"ERROR">> /\ f.rec["text"] # <<>>
    /\ f.rec["url"] = f.url /\ f.rec["source"] = "web_page"

C5_FetchFailureIsARecord ==
    /\ \A f \in fetched :
          IF f.outcome = "ok"
          THEN /\ Len(f.writes) = 2
               /\ f.writes[1].name[2] = "_raw.html"
               /\ f.writes[2].name[2] = "_processed.json"
               /\ f.writes[2].data = f.rec
          ELSE ErrorTagged(f) /\ f.writes = <<>>
    /\ pc = "cvs_open" =>
          Cardinality(raw_web) = 2 * Cardinality({f \in fetched : f.outcome = "ok"})

C5_Witness ==
    /\ pc = "cvs_open"
    /\ \E f \in fetched : f.outcome = "request_error"
    /\ \E f \in fetched : f.outcome = "ok"

\* C6: extract_pdf_sections returns a record with an 'error' field and writes
\* no metadata JSON when the path does not exist or the PDF cannot be parsed
\* (a PDF with zero pages included).
Unreadable(file) == ~file.exists \/ file.parse # "ok" \/ file.pages = <<>>

C6_ExtractFailureIsARecord ==
    /\ [](\A x \in extracted : Unreadable(x.file) => (Has(x.rec, "error") /\ x.writes = <<>>))
    /\ [][(extracted' # extracted /\ extracted' # {}
             /\ \A x \in extracted' : Unreadable(x.file)) => processed' = processed]_vars

C6_Witness ==
    /\ \E x \in extracted : ~x.file.exists /\ x.rec["error"] = "File not found."
    /\ processed # {}

C6_WitnessNoPages == \E x \in extracted : x.file = PdfNoPages /\ Has(x.rec, "error")

\* C7: a submitted question appends exactly one user message and one assistant
\* message (the answer or an inline error), leaves the index, its directory and
\* the cached chain as they were, and the chat input stays available.
C7_QueryIsContained ==
    [][Len(messages') > Len(messages) =>
          /\ Len(messages') = Len(messages) + 2
          /\ SubSeq(messages', 1, Len(messages)) = messages
          /\ messages'[Len(messages) + 1].role = "user"
          /\ messages'[Len(messages) + 2].role = "assistant"
          /\ messages'[Len(messages) + 2].content \in {"answer", "error"}
          /\ index' = index /\ dbDir' = dbDir
          /\ IsChain(cache) /\ cache' = cache
          /\ chatShown' /\ pc' = "idle"]_vars

C7_Witness ==
    /\ Len(messages) = 4
    /\ messages[2].content = "error"
    /\ messages[4].content = "answer"
    /\ index # {}

\* C8: every entry of the index, and every chunk on its way there, carries
\* 'title' and 'source' and at least one of 'url' and 'path'.
Citable(m) == Has(m, "title") /\ Has(m, "source") /\ (Has(m, "url") \/ Has(m, "path"))

C8_EntriesAreCitable ==
    /\ \A e \in index : Citable(e.metadata)
    /\ \A k \in 1..Len(chunks) : Citable(chunks[k].metadata)

C8_Witness == pc = "idle" /\ Cardinality(index) >= 3

\* C9: after an ingestion run in which an uploaded PDF with text was
\* extracted, the index holds an entry that comes from that PDF.
HasText(file) == ~Unreadable(file) /\ Tokens(Flatten(file.pages)) # <<>>

C9_PdfReachesIndex ==
    pc = "cvs_done" =>
        \A f \in papers : HasText(f.data) =>
            \E e \in index : /\ Get(e.metadata, "source", "") = "pdf_paper"
                             /\ Get(e.metadata, "path", "") = PdfPath(f.name)

\* C10: between two clearings of the cache build_rag_chain is called at most
\* once, and once a value is cached every later request gets that value
\* without another call.
C10_ChainIsCachedSingleton ==
    /\ [](builds <= 1 /\ (IsChain(cache) => builds = 1))
    /\ [][(cache # Empty /\ cache' # Empty) => (cache' = cache /\ builds' = builds)]_vars

C10_Witness == builds = 1 /\ IsChain(cache) /\ Len(messages) = 4 /\ qseen.at = "idle"

\* the characters of a chunk: <<word, position in the word>>, and <<" ", 0>>
\* for a space; two characters are the same when they are the same character
\* of the same word, so an overlap is an overlap of spans of the document
PieceChars(p) == [i \in 1..(p.hi - p.lo + 1) |-> <<p.w, p.lo + i - 1>>]

RECURSIVE ChunkChars(_)
ChunkChars(c) ==
    IF c = <<>> THEN <<>>
    ELSE PieceChars(Head(c)) \o (IF Tail(c) = <<>> THEN <<>> ELSE << <<" ", 0>> >>)
                             \o ChunkChars(Tail(c))

ChunkLen(c) == Len(ChunkChars(c))

\* the longest suffix of a that is a prefix of b
Overlap(a, b) ==
    LET A == ChunkChars(a)
        B == ChunkChars(b)
        S == {n \in 1..Min(Len(A), Len(B)) :
                 A[Len(A) - n + 1] = B[1] /\ SubSeq(A, Len(A) - n + 1, Len(A)) = SubSeq(B, 1, n)}
    IN IF S = {} THEN 0 ELSE CHOOSE n \in S : \A m \in S : m <= n

Chunked == ret.fn = "split_text_into_chunks"
SameDocument(k) == ret.value[k].metadata = ret.value[k + 1].metadata
OneWord(c) == Len(c) = 1 /\ c[1].lo = 1 /\ c[1].hi = WLen(c[1].w)

C11_WitnessCut ==
    /\ Chunked
    /\ arg.documents = <<WebRecord("w", <<"W600">>)>>
    /\ Len(ret.value) = 2
    /\ ChunkLen(ret.value[1].page_content) = CHUNK_SIZE
    /\ Overlap(ret.value[1].page_content, ret.value[2].page_content) = CHUNK_OVERLAP

Extracted == ret.fn = "extract_pdf_sections"
LinesOf(file) == Flatten(file.pages)
\* some line of the PDF begins with one of the words (whatever the case)
HeadingIn(file, ws) == \E k \in 1..Len(LinesOf(file)) :
                          LinesOf(file)[k] # <<>> /\ Lower(LinesOf(file)[k][1]) \in ws
WordIn(file, w) == \E k \in 1..Len(LinesOf(file)) :
                      \E j \in 1..Len(LinesOf(file)[k]) : Lower(LinesOf(file)[k][j]) = w
AllWords(file) == Flatten(LinesOf(file))
FirstWords(ws, n) == SubSeq(ws, 1, Min(n, Len(ws)))

\* C12 as claimed: every PDF that exists and parses gives a record without
\* 'error'; without a Conclusion heading the conclusion is empty while title,
\* abstract and full_text are populated.
C12_AlwaysPopulated ==
    (Extracted /\ ~Unreadable(arg.file)) =>
        /\ ~Has(ret.rec, "error")
        /\ ~HeadingIn(arg.file, {"conclusion", "conclusions"}) =>
              /\ ret.rec["conclusion"] = <<>>
              /\ ret.rec["title"] # <<>>
              /\ ret.rec["abstract"] # <<>>
              /\ ret.rec["full_text"] # <<>>

\* C12 amended: every PDF that exists and parses gives a record without
\* 'error'; a section whose heading is missing is empty, but for the abstract,
\* which is then the first ABSTRACT_WORDS words of the text; full_text is the
\* whole text and title the first line of the first page, so abstract and
\* full_text are populated when the PDF has text and title when that line has.
C12_SectionsDegrade ==
    (Extracted /\ ~Unreadable(arg.file)) =>
        LET f == arg.file
            r == ret.rec
        IN /\ ~Has(r, "error")
           /\ DOMAIN r = {"path", "title", "abstract", "introduction", "conclusion",
                          "full_text", "source"}
           /\ r["full_text"] = AllWords(f)
           /\ r["title"] = f.pages[1][1]
           /\ ~HeadingIn(f, {"conclusion", "conclusions"}) => r["conclusion"] = <<>>
           /\ ~WordIn(f, "introduction") => r["introduction"] = <<>>
           /\ ~WordIn(f, "abstract") => r["abstract"] = FirstWords(AllWords(f), ABSTRACT_WORDS)
           /\ r["abstract"] = <<>> => ~HasText(f)
           /\ HasText(f) => r["full_text"] # <<>>

C12_Witness ==
    /\ Extracted /\ HasText(arg.file)
    /\ ~HeadingIn(arg.file, {"conclusion", "conclusions"})
    /\ ~WordIn(arg.file, "abstract")
    /\ ret.rec["conclusion"] = <<>>
    /\ ret.rec["introduction"] # <<>>
    /\ ret.rec["abstract"] # <<>> /\ ret.rec["title"] # <<>>

C12_WitnessLong ==
    /\ Extracted
    /\ Len(ret.rec["full_text"]) > ABSTRACT_WORDS
    /\ Len(ret.rec["abstract"]) = ABSTRACT_WORDS

\* the text of a record: 'full_text' if it has one that is not empty, else 'text'
SelectedText(rec) ==
    IF "full_text" \in DOMAIN rec /\ rec["full_text"] # <<>> THEN rec["full_text"]
    ELSE IF "text" \in DOMAIN rec THEN rec["text"] ELSE <<>>

\* the number of chunks of the first n records
RECURSIVE ChunksBefore(_, _)
ChunksBefore(docs, n) ==
    IF n = 0 THEN 0 ELSE ChunksBefore(docs, n - 1) + Len(split_text(SelectedText(docs[n])))

\* C13: the chunks returned are, record after record in input order, the
\* pieces of the record's text ('full_text' before 'text') in their order,
\* each with the record minus 'text' and 'full_text' as metadata; a record
\* with neither text gives no chunk.
C13_ChunksInOrder ==
    Chunked =>
        LET docs == arg.documents
            out == ret.value
        IN /\ Len(out) = ChunksBefore(docs, Len(docs))
           /\ \A i \in 1..Len(docs) :
                 LET parts == split_text(SelectedText(docs[i]))
                 IN /\ SelectedText(docs[i]) = <<>> => parts = <<>>
                    /\ \A k \in 1..Len(parts) :
                          LET c == out[ChunksBefore(docs, i - 1) + k]
                          IN /\ c.page_content = parts[k]
                             /\ DOMAIN c.metadata = DOMAIN docs[i] \ {"text", "full_text"}
                             /\ \A f \in DOMAIN c.metadata : c.metadata[f] = docs[i][f]

C13_Witness ==
    /\ Chunked
    /\ arg.documents = << BothRecord("b", <<"W300", "V300", "tail">>, <<"end">>),
                          WebRecord("w", <<"W600">>) >>
    /\ Len(ret.value) = 4
    /\ ret.value[2].page_content = <<WholeWord("V300"), WholeWord("tail")>>
    /\ ret.value[2].metadata["source"] = "pdf_paper"
    /\ ret.value[3].metadata["source"] = "web_page"

Shown == ret.fn \in {"chat", "run_rag_query"}

\* the line a document is to be shown with: its title and source, or the
\* fallbacks ft and fs, and its url, else its path, else 'N/A'
LineFor(m, ft, fs) ==
    << IF "title" \in DOMAIN m THEN m["title"] ELSE ft,
       IF "source" \in DOMAIN m THEN m["source"] ELSE fs,
       IF "url" \in DOMAIN m THEN m["url"]
       ELSE IF "path" \in DOMAIN m THEN m["path"] ELSE "N/A" >>

\* the lines cover every document, show nothing else, and none is repeated
OneLinePerSource(docs, lines, ft, fs) ==
    /\ \A i \in 1..Len(docs) : \E k \in 1..Len(lines) : lines[k] = LineFor(docs[i].metadata, ft, fs)
    /\ \A k \in 1..Len(lines) : \E i \in 1..Len(docs) : lines[k] = LineFor(docs[i].metadata, ft, fs)
    /\ \A k, l \in 1..Len(lines) : lines[k] = lines[l] => k = l

\* C14 as claimed: wherever sources are displayed there is one line per
\* distinct (title, source, url-or-path), with 'Untitled Document' and
\* 'Unknown Source' for a missing title or source.
C14_SourcesAsClaimed ==
    Shown => OneLinePerSource(arg.source_documents, ret.lines,
                              <<"Untitled", "Document">>, "Unknown Source")

\* C14 amended: one line per distinct (title, source, url-or-path) covering
\* every retrieved document, 'url' before 'path', 'N/A' without either; a
\* missing title or source is 'Untitled Document' / 'Unknown Source' in the
\* chat page and 'N/A' in run_rag_query.
C14_SourcesDeduplicated ==
    /\ ret.fn = "chat" => OneLinePerSource(arg.source_documents, ret.lines,
                                           <<"Untitled", "Document">>, "Unknown Source")
    /\ ret.fn = "run_rag_query" => OneLinePerSource(arg.source_documents, ret.lines,
                                                    <<"N/A">>, "N/A")

C14_Witness ==
    /\ ret.fn = "chat"
    /\ Len(arg.source_documents) = 2
    /\ arg.source_documents[1] = arg.source_documents[2]
    /\ DOMAIN arg.source_documents[1].metadata = {"url", "path"}
    /\ ret.lines = << << <<"Untitled", "Document">>, "Unknown Source", "http://a.org/x" >> >>

C14_WitnessPrinted ==
    /\ ret.fn = "run_rag_query"
    /\ Len(arg.source_documents) = 2
    /\ DOMAIN arg.source_documents[1].metadata = {"path"}
    /\ DOMAIN arg.source_documents[2].metadata = {"title", "source"}
    /\ Len(ret.lines) = 2

\* the items of the ingestion run that were acquired, by the files they left,
\* and the entries of the index that come from an item
FetchedUrls == {f.data["url"] : f \in {g \in raw_web : IsProcessedJson(g) /\ g.data["text"] # <<>>}}
ExtractedPdfs == {PdfPath(f.name) : f \in {g \in papers : HasText(g.data)}}
EntriesOf(where) == {e \in index : Get(e.metadata, "url", Get(e.metadata, "path", "N/A")) = where}

\* the web half of C15: every page fetched with text has entries in the index,
\* and, the old entries having been deleted, no other URL has
UrlsSkipAndContinue ==
    pc = "cvs_done" =>
        /\ \A u \in FetchedUrls : EntriesOf(u) # {}
        /\ deleteOk => \A u \in URLS \ FetchedUrls : EntriesOf(u) = {}

\* C15: when an ingestion run has built the index, every item that was
\* acquired (page fetched with text, PDF extracted with text) has entries in
\* it, whatever happened to the other items, and an item that failed has none.
C15_SkipAndContinue ==
    pc = "cvs_done" =>
        /\ \A w \in FetchedUrls \cup ExtractedPdfs : EntriesOf(w) # {}
        /\ deleteOk => \A u \in URLS \ FetchedUrls : EntriesOf(u) = {}

C15_WitnessMixed ==
    /\ pc = "cvs_done"
    /\ FetchedUrls = {"http://b.org/y"}
    /\ ExtractedPdfs # {}
    /\ EntriesOf("http://b.org/y") # {}
    /\ EntriesOf("data/papers/a.pdf") = {}

\* C16: in a single session the cache is empty from the start of the
\* ingestion handler until the rerun that follows create_vector_store; a
\* chain is created only by a script run outside the handler, and the index
\* never changes under a cached chain, so the chain that answers a query
\* was built after the last rebuild of the index.
C16_ChainRebuiltAfterIngest ==
    /\ [](pc # "idle" => cache = Empty)
    /\ [][(IsChain(cache') /\ cache' # cache) => (pc \in {"idle", "rerun"} /\ pc' = "idle")]_vars
    /\ [][index' # index => (cache = Empty /\ cache' = Empty)]_vars
    /\ [][Len(messages') > Len(messages) => (IsChain(cache') /\ pc' = "idle")]_vars

C16_Witness ==
    /\ pc = "idle" /\ IsChain(cache) /\ builds = 1
    /\ everInserted /\ index # {}
    /\ messages # <<>> /\ messages[Len(messages)].content = "answer"

====
